---- MODULE Spec2Model ----
(***************************************************************************)
(* Payment-confirmation state machine of the elimufiti backend:            *)
(* src/routes/subscriptions.js holds the subscription routes (lines 1-255) *)
(* and the M-Pesa payment routes (lines 256-562).  Every request handler   *)
(* is an async function; it is modelled as a process whose steps are the   *)
(* awaited calls (one database statement or one provider call per step),   *)
(* each step running the handler's code up to its next await.              *)
(***************************************************************************)
EXTENDS Integers, Sequences, FiniteSets, TLC

\* ------------------------------------------------------------------ bounds
MaxRequests == 2
MaxInFlight == 2
MaxFaults == 1

\* Two user accounts: the owner of the seeded intents and another user.
Users == {1, 2}
Slots == 1..MaxInFlight

\* ------------------------------------------------------------------ values
\* SQL NULL (and a JavaScript undefined bound to a query parameter) is the
\* empty set, a value v is {v}.
NULL == {}

PlanInputs == {"basic", "premium"}

Receipts == {"QAX123", "QBY456"}

\* TransactionDate as the provider sends it (yyyymmddhhmmss, a number) and a
\* four-digit value; both as their decimal digits.
ProviderDate == <<2, 0, 2, 5, 0, 1, 1, 6, 1, 0, 3, 0, 0, 0>>
YearDate == <<2, 0, 2, 5>>
DateInputs == {ProviderDate, YearDate}

ResultCodes == {0, 1032}

ResultDescOf(code) ==
  IF code = 0 THEN "The service request is processed successfully."
  ELSE "Request cancelled by user"

\* stkCallback.CallbackMetadata: has = the object is present; the three
\* items are looked up by name, an absent item is NULL.
Meta(r, d, p) == [has |-> TRUE, receipt |-> r, date |-> d, phone |-> p]
NoMeta == [has |-> FALSE, receipt |-> NULL, date |-> NULL, phone |-> NULL]
PhoneInput == "254712345678"

MetaInputs ==
  {Meta({r}, {d}, {PhoneInput}) : r \in Receipts, d \in DateInputs}
  \cup {Meta(NULL, {YearDate}, {PhoneInput}),
        Meta({"QAX123"}, NULL, {PhoneInput}),
        Meta({"QAX123"}, {YearDate}, NULL),
        NoMeta}

\* What a failed provider call throws: the HTTP client's message and, when
\* the provider answered, the provider's own error text (error.response.data).
ProviderErrors ==
  {[message |-> "Request failed with status code 400",
    data |-> {"Bad Request - Invalid PhoneNumber"}],
   [message |-> "Network Error", data |-> NULL]}

TokenErrorMessage == "Failed to get M-Pesa access token"
DbErrorMessage == "database error"

\* new Date(String(n)) for a string of decimal digits, as V8 parses it: four
\* digits are an ISO year; anything else goes to the legacy parser, which
\* reads at most nine significant digits as one number and takes it for a
\* month (1..31 tried as month/day) or a year.  The Date is valid when the
\* resulting time is inside the TimeClip range.
RECURSIVE DropZeros(_)
DropZeros(ds) ==
  IF ds # <<>> /\ Head(ds) = 0 THEN DropZeros(Tail(ds)) ELSE ds

RECURSIVE DigitsValue(_, _)
DigitsValue(ds, acc) ==
  IF ds = <<>> THEN acc ELSE DigitsValue(Tail(ds), acc * 10 + Head(ds))

MaxSignificantDigits == 9
MaxDateYear == 275760

ReadUnsignedNumeral(ds) ==
  LET sig == DropZeros(ds)
      n == IF Len(sig) > MaxSignificantDigits
           THEN MaxSignificantDigits ELSE Len(sig)
  IN DigitsValue(SubSeq(sig, 1, n), 0)

JsDateValid(ds) ==
  IF Len(ds) = 4 THEN TRUE
  ELSE LET n == ReadUnsignedNumeral(ds)
       IN IF n >= 1 /\ n <= 31 THEN n <= 12
          ELSE n <= MaxDateYear

\* ------------------------------------------------------------------ state
VARIABLES
  payments,   \* table payments: id -> row
  subs,       \* table subscriptions: id -> row
  flag,       \* users.subscription_status: user id -> status
  tx,         \* transaction state of the shared database handle
  snap,       \* the tables as they were when the open transaction began
  reqs,       \* the requests in flight: slot -> handler state
  nextPid,    \* next payments.id
  nextSid,    \* next subscriptions.id (ids grow with created_at)
  nextCid,    \* next CheckoutRequestID the provider issues
  started,    \* number of requests received so far
  faults      \* number of database statements that failed by an injected fault

vars == <<payments, subs, flag, tx, snap, reqs, nextPid, nextSid, nextCid,
          started, faults>>

DB == [payments |-> payments, subs |-> subs, flag |-> flag]
NoSnap == [payments |-> <<>>, subs |-> <<>>, flag |-> <<>>]

\* The committed tables: what survives a ROLLBACK of the open transaction.
Committed == IF tx = "none" THEN DB ELSE snap

IdleReq ==
  [kind |-> "none", pc |-> "idle", user |-> 0, plan |-> "none", cid |-> 0,
   code |-> 0, desc |-> "none", meta |-> NoMeta, pid |-> 0, puser |-> 0,
   pplan |-> "none", seen |-> "none", sid |-> 0, err |-> "none",
   ptext |-> "none", resp |-> 0, wrote |-> FALSE, valid |-> TRUE,
   token |-> FALSE, cred |-> FALSE, pushes |-> 0, ref |-> 0, page |-> 0,
   limit |-> 0,
   data |-> <<>>, pre |-> NoSnap, f0 |-> 0]

\* A pending intent as a completed Initiate leaves it (scenario A of the
\* specification: user 1, plan premium, CheckoutRequestID assigned).
InitiatedPayment(cid) ==
  [user_id |-> 1, plan_id |-> "premium", status |-> "pending", cid |-> {cid},
   receipt |-> NULL, date |-> NULL, error |-> NULL]

\* The same intent after a success callback completed it, and the
\* Subscription that callback created.
CompletedPayment(cid) ==
  [InitiatedPayment(cid) EXCEPT !.status = "completed",
                                !.receipt = {"QAX123"}, !.date = {YearDate}]

ActivatedSub(pid) ==
  [user_id |-> 1, plan |-> "premium", status |-> "active",
   payment_id |-> {pid}]

\* The server starts in one of three states it reaches by itself: no
\* payment yet; one pending intent initiated; or a completed intent with
\* its active Subscription and a second, pending intent of the same user.
Init ==
  /\ \/ /\ payments = <<>>
        /\ subs = <<>>
        /\ flag = [u \in Users |-> "inactive"]
     \/ /\ payments = <<InitiatedPayment(1)>>
        /\ subs = <<>>
        /\ flag = [u \in Users |-> "inactive"]
     \/ /\ payments = <<CompletedPayment(1), InitiatedPayment(2)>>
        /\ subs = <<ActivatedSub(1)>>
        /\ flag = [u \in Users |-> IF u = 1 THEN "active" ELSE "inactive"]
  /\ nextPid = Len(payments) + 1
  /\ nextCid = Len(payments) + 1
  /\ nextSid = Len(subs) + 1
  /\ tx = "none"
  /\ snap = NoSnap
  /\ reqs = [r \in Slots |-> IdleReq]
  /\ started = 0
  /\ faults = 0

\* ------------------------------------------------------- database handle
\* db.query(...) of config/database: one handle shared by every request.
Free(r) == reqs[r].pc \in {"idle", "done"}
AllQuiet == \A q \in Slots : Free(q)
FreeSlot(r) == Free(r) /\ \A q \in 1..(r - 1) : ~Free(q)

\* A statement fails when the transaction is already aborted, or by a fault.
StmtRuns == tx # "aborted"
StmtFails == tx = "aborted" \/ faults < MaxFaults
TxAfterFail == IF tx = "open" THEN "aborted" ELSE tx
FaultsAfterFail == IF tx = "aborted" THEN faults ELSE faults + 1

\* BEGIN: opens a transaction unless one is open (then a warning, no effect).
DbBegin ==
  /\ tx' = "open"
  /\ snap' = IF tx = "none" THEN DB ELSE snap

\* COMMIT: keeps the writes of an open transaction, discards those of an
\* aborted one; outside a transaction a warning, no effect.
DbCommit ==
  /\ tx' = "none"
  /\ snap' = NoSnap
  /\ IF tx = "aborted"
     THEN /\ payments' = snap.payments /\ subs' = snap.subs /\ flag' = snap.flag
     ELSE UNCHANGED <<payments, subs, flag>>

\* ROLLBACK: discards the writes made since BEGIN.
DbRollback ==
  /\ tx' = "none"
  /\ snap' = NoSnap
  /\ IF tx = "none"
     THEN UNCHANGED <<payments, subs, flag>>
     ELSE /\ payments' = snap.payments /\ subs' = snap.subs /\ flag' = snap.flag

AddRow(table, id, row) ==
  [i \in DOMAIN table \cup {id} |-> IF i = id THEN row ELSE table[i]]

\* UPDATE ... WHERE id = $n: no row, no change, no error.
UpdateRow(table, id, row) ==
  IF id \in DOMAIN table THEN [table EXCEPT ![id] = row] ELSE table

\* The response is sent: the handler's locals are dropped, the slot keeps what
\* the handler answered and which payment, if any, it had in hand.
Done(req, code) ==
  [IdleReq EXCEPT !.kind = req.kind, !.pc = "done", !.resp = code,
                  !.code = req.code, !.pid = req.pid, !.seen = req.seen,
                  !.wrote = req.wrote, !.valid = req.valid,
                  !.token = req.token]

Finish(r, code) == reqs' = [reqs EXCEPT ![r] = Done(reqs[r], code)]
Goto(r, pc) == reqs' = [reqs EXCEPT ![r].pc = pc]

\* ----------------------------------------------------- POST /mpesa/initiate
\* phone_number as its characters: a digit is its value, NonDigit any other
\* character.
NonDigit == 10
PhoneLength == 12
ValidPhone == <<2, 5, 4, 7, 1, 2, 3, 4, 5, 6, 7, 8>>

InitiatePhoneInputs ==
  {ValidPhone,
   <<0, 7, 1, 2, 3, 4, 5, 6, 7, 8>>,
   ValidPhone \o <<9>>,
   <<2, 5, 5, 7, 1, 2, 3, 4, 5, 6, 7, 8>>,
   <<2, 5, 4, 7, 1, 2, NonDigit, 4, 5, 6, 7, 8>>}

MinAmount == 1
AmountInputs == {0, 1, 1200}
InitiatePlanInputs == PlanInputs \cup {"gold"}

\* body('phone_number').matches(/^254[0-9]{9}$/)
PhoneValid(ph) ==
  /\ Len(ph) = PhoneLength
  /\ SubSeq(ph, 1, 3) = <<2, 5, 4>>
  /\ \A i \in 4..PhoneLength : ph[i] \in 0..9

\* body('amount').isFloat({ min: 1 })
AmountValid(a) == a >= MinAmount

\* body('plan_id').isIn(['basic', 'premium', 'institution'])
PlanValid(plan) == plan \in {"basic", "premium", "institution"}

InputValid(ph, a, plan) == PhoneValid(ph) /\ AmountValid(a) /\ PlanValid(plan)

\* A credential the provider issued to an earlier Initiate of this process
\* (the one served last, or one still in flight) and has not refused since:
\* that Initiate's push request was accepted or is not yet answered.  The
\* provider's credentials outlive the few requests considered here.
CredentialIssued ==
  \E q \in Slots :
    /\ reqs[q].token
    /\ \/ reqs[q].pc \in {"push", "setcid"}
       \/ reqs[q].pc = "done" /\ reqs[q].resp = 200

\* The handler started on any input, with no validation.
StartInitiateUnchecked(r, u, ph, a, plan) ==
  /\ started < MaxRequests
  /\ FreeSlot(r)
  /\ started' = started + 1
  /\ reqs' = [reqs EXCEPT ![r] =
       [IdleReq EXCEPT !.kind = "initiate", !.pc = "insert", !.user = u,
                       !.plan = plan, !.valid = InputValid(ph, a, plan),
                       !.cred = CredentialIssued, !.pre = DB, !.f0 = faults]]
  /\ UNCHANGED <<payments, subs, flag, tx, snap, nextPid, nextSid, nextCid,
                 faults>>

\* Validation runs before the first await: invalid input is answered 400.
StartInitiate(r, u, ph, a, plan) ==
  /\ started < MaxRequests
  /\ FreeSlot(r)
  /\ started' = started + 1
  /\ LET req == [IdleReq EXCEPT !.kind = "initiate", !.pc = "insert",
                                !.user = u, !.plan = plan,
                                !.valid = InputValid(ph, a, plan),
                                !.cred = CredentialIssued,
                                !.pre = DB, !.f0 = faults]
     IN reqs' = [reqs EXCEPT ![r] = IF req.valid THEN req ELSE Done(req, 400)]
  /\ UNCHANGED <<payments, subs, flag, tx, snap, nextPid, nextSid, nextCid,
                 faults>>

\* INSERT INTO payments (...) VALUES (..., 'pending') RETURNING *
InitInsert(r) ==
  /\ reqs[r].kind = "initiate" /\ reqs[r].pc = "insert"
  /\ \/ /\ StmtRuns
        /\ payments' = AddRow(payments, nextPid,
             [user_id |-> reqs[r].user, plan_id |-> reqs[r].plan,
              status |-> "pending", cid |-> NULL, receipt |-> NULL,
              date |-> NULL, error |-> NULL])
        /\ nextPid' = nextPid + 1
        /\ reqs' = [reqs EXCEPT ![r].pid = nextPid, ![r].pc = "token"]
        /\ UNCHANGED <<tx, faults>>
     \/ /\ StmtFails
        /\ tx' = TxAfterFail
        /\ faults' = FaultsAfterFail
        /\ Finish(r, 500)
        /\ UNCHANGED <<payments, nextPid>>
  /\ UNCHANGED <<subs, flag, snap, nextSid, nextCid, started>>

\* getMpesaAccessToken(): any failure is rethrown with a fixed message.
InitToken(r) ==
  /\ reqs[r].kind = "initiate" /\ reqs[r].pc = "token"
  /\ \/ reqs' = [reqs EXCEPT ![r].pc = "push", ![r].token = TRUE]
     \/ \E e \in ProviderErrors :
          reqs' = [reqs EXCEPT ![r].pc = "markfailed",
                               ![r].err = TokenErrorMessage,
                               ![r].ptext = IF e.data = NULL THEN e.message
                                            ELSE CHOOSE t \in e.data : TRUE]
  /\ UNCHANGED <<payments, subs, flag, tx, snap, nextPid, nextSid, nextCid,
                 started, faults>>

\* The push request sent again after a failed attempt.
InitPushRetries(r) ==
  /\ reqs[r].kind = "initiate" /\ reqs[r].pc = "push"
  /\ \/ /\ reqs' = [reqs EXCEPT ![r].pc = "setcid", ![r].cid = nextCid,
                                  ![r].pushes = @ + 1, ![r].ref = reqs[r].pid]
        /\ nextCid' = nextCid + 1
     \/ /\ reqs[r].pushes = 0
        /\ reqs' = [reqs EXCEPT ![r].pushes = @ + 1, ![r].ref = reqs[r].pid]
        /\ UNCHANGED nextCid
     \/ /\ reqs[r].pushes > 0
        /\ \E e \in ProviderErrors :
             reqs' = [reqs EXCEPT ![r].pc = "markfailed",
                                  ![r].err = e.message,
                                  ![r].pushes = @ + 1,
                                  ![r].ptext = IF e.data = NULL THEN e.message
                                               ELSE CHOOSE t \in e.data : TRUE]
        /\ UNCHANGED nextCid
  /\ UNCHANGED <<payments, subs, flag, tx, snap, nextPid, nextSid, started,
                 faults>>

\* axios.post(.../stkpush/v1/processrequest) with AccountReference
\* ELIMUFITI-<payment.id>: the provider answers with a fresh
\* CheckoutRequestID, or the call throws.
InitPush(r) ==
  /\ reqs[r].kind = "initiate" /\ reqs[r].pc = "push"
  /\ \/ /\ reqs' = [reqs EXCEPT ![r].pc = "setcid", ![r].cid = nextCid,
                                  ![r].pushes = @ + 1, ![r].ref = reqs[r].pid]
        /\ nextCid' = nextCid + 1
     \/ /\ \E e \in ProviderErrors :
             reqs' = [reqs EXCEPT ![r].pc = "markfailed",
                                  ![r].err = e.message,
                                  ![r].pushes = @ + 1,
                                  ![r].ref = reqs[r].pid,
                                  ![r].ptext = IF e.data = NULL THEN e.message
                                               ELSE CHOOSE t \in e.data : TRUE]
        /\ UNCHANGED nextCid
  /\ UNCHANGED <<payments, subs, flag, tx, snap, nextPid, nextSid, started,
                 faults>>

\* The success response sent without the CheckoutRequestID being stored.
InitSetCidNotStored(r) ==
  /\ reqs[r].kind = "initiate" /\ reqs[r].pc = "setcid"
  /\ Finish(r, 200)
  /\ UNCHANGED <<payments, subs, flag, tx, snap, nextPid, nextSid, nextCid,
                 started, faults>>

\* UPDATE payments SET mpesa_checkout_request_id = $1 WHERE id = $2
InitSetCid(r) ==
  /\ reqs[r].kind = "initiate" /\ reqs[r].pc = "setcid"
  /\ \/ /\ StmtRuns
        /\ payments' = UpdateRow(payments, reqs[r].pid,
             [payments[reqs[r].pid] EXCEPT !.cid = {reqs[r].cid}])
        /\ Finish(r, 200)
        /\ UNCHANGED <<tx, faults>>
     \/ /\ StmtFails
        /\ tx' = TxAfterFail
        /\ faults' = FaultsAfterFail
        /\ reqs' = [reqs EXCEPT ![r].pc = "markfailed",
                                ![r].err = DbErrorMessage,
                                ![r].ptext = DbErrorMessage]
        /\ UNCHANGED payments
  /\ UNCHANGED <<subs, flag, snap, nextPid, nextSid, nextCid, started>>

\* UPDATE payments SET status = 'failed', error_message = $2 WHERE id = $3
InitMarkFailed(r) ==
  /\ reqs[r].kind = "initiate" /\ reqs[r].pc = "markfailed"
  /\ \/ /\ StmtRuns
        /\ payments' = UpdateRow(payments, reqs[r].pid,
             [payments[reqs[r].pid] EXCEPT !.status = "failed",
                                           !.error = {reqs[r].err}])
        /\ Finish(r, 400)
        /\ UNCHANGED <<tx, faults>>
     \/ /\ StmtFails
        /\ tx' = TxAfterFail
        /\ faults' = FaultsAfterFail
        /\ Finish(r, 500)
        /\ UNCHANGED payments
  /\ UNCHANGED <<subs, flag, snap, nextPid, nextSid, nextCid, started>>

\* ----------------------------------------------------- POST /mpesa/callback
StartCallback(r, cid, code, meta) ==
  /\ started < MaxRequests
  /\ FreeSlot(r)
  /\ started' = started + 1
  /\ reqs' = [reqs EXCEPT ![r] =
       [IdleReq EXCEPT !.kind = "callback", !.pc = "lookup", !.cid = cid,
                       !.code = code, !.desc = ResultDescOf(code),
                       !.meta = meta, !.pre = DB, !.f0 = faults]]
  /\ UNCHANGED <<payments, subs, flag, tx, snap, nextPid, nextSid, nextCid,
                 faults>>

\* rows of SELECT * FROM payments WHERE mpesa_checkout_request_id = $1
\* NoCid: the notification has no CheckoutRequestID (undefined, bound as
\* NULL); a comparison with NULL selects no row.
NoCid == -1

\* The comparison made null-safe: a missing id matches the rows without one.
RowsByCheckoutIdNullSafe(cid) ==
  {p \in DOMAIN payments :
     IF cid = NoCid THEN payments[p].cid = NULL ELSE payments[p].cid = {cid}}

RowsByCheckoutId(cid) ==
  {p \in DOMAIN payments : cid # NoCid /\ payments[p].cid = {cid}}

FirstRow(rows) == CHOOSE p \in rows : \A q \in rows : p <= q

\* The lookup, then the code up to the next statement: not found -> 404;
\* success result -> read CallbackMetadata.Item (a TypeError when the
\* metadata is absent) and issue BEGIN; failure result -> issue the UPDATE.
CbLookup(r) ==
  /\ reqs[r].kind = "callback" /\ reqs[r].pc = "lookup"
  /\ IF ~StmtRuns THEN Finish(r, 500)
     ELSE IF RowsByCheckoutId(reqs[r].cid) = {} THEN Finish(r, 404)
     ELSE LET p == FirstRow(RowsByCheckoutId(reqs[r].cid))
              found == [reqs[r] EXCEPT !.pid = p,
                                       !.puser = payments[p].user_id,
                                       !.pplan = payments[p].plan_id,
                                       !.seen = payments[p].status]
          IN IF reqs[r].code = 0
             THEN IF reqs[r].meta.has
                  THEN reqs' = [reqs EXCEPT ![r] = [found EXCEPT !.pc = "begin"]]
                  ELSE reqs' = [reqs EXCEPT ![r] = Done(found, 500)]
             ELSE reqs' = [reqs EXCEPT ![r] = [found EXCEPT !.pc = "markfailed"]]
  /\ UNCHANGED <<payments, subs, flag, tx, snap, nextPid, nextSid, nextCid,
                 started, faults>>

\* BEGIN, then the arguments of the UPDATE are evaluated:
\* transactionDate.toString() throws when the item is absent.
CbBegin(r) ==
  /\ reqs[r].kind = "callback" /\ reqs[r].pc = "begin"
  /\ IF ~StmtRuns
     THEN Finish(r, 500) /\ UNCHANGED <<tx, snap>>
     ELSE /\ DbBegin
          /\ Goto(r, IF reqs[r].meta.date = NULL THEN "rollback" ELSE "update")
  /\ UNCHANGED <<payments, subs, flag, nextPid, nextSid, nextCid, started,
                 faults>>

\* UPDATE payments SET status = 'completed', mpesa_receipt_number = $1,
\* transaction_date = $2 WHERE id = $3; an Invalid Date parameter is
\* rejected by the database.
DateParamValid(meta) == \A d \in meta.date : JsDateValid(d)

CbUpdatePayment(r) ==
  /\ reqs[r].kind = "callback" /\ reqs[r].pc = "update"
  /\ \/ /\ StmtRuns /\ DateParamValid(reqs[r].meta)
        /\ payments' = UpdateRow(payments, reqs[r].pid,
             [payments[reqs[r].pid] EXCEPT !.status = "completed",
                                           !.receipt = reqs[r].meta.receipt,
                                           !.date = reqs[r].meta.date])
        /\ reqs' = [reqs EXCEPT ![r].pc = "insert", ![r].wrote = TRUE]
        /\ UNCHANGED <<tx, faults>>
     \/ /\ StmtRuns /\ ~DateParamValid(reqs[r].meta)
        /\ tx' = TxAfterFail
        /\ Goto(r, "rollback")
        /\ UNCHANGED <<payments, faults>>
     \/ /\ StmtFails
        /\ tx' = TxAfterFail
        /\ faults' = FaultsAfterFail
        /\ Goto(r, "rollback")
        /\ UNCHANGED payments
  /\ UNCHANGED <<subs, flag, snap, nextPid, nextSid, nextCid, started>>

\* INSERT INTO subscriptions (user_id, plan, status, ..., payment_id)
\* VALUES (payment.user_id, payment.plan_id, 'active', ..., payment.id)
CbInsertSub(r) ==
  /\ reqs[r].kind = "callback" /\ reqs[r].pc = "insert"
  /\ \/ /\ StmtRuns
        /\ subs' = AddRow(subs, nextSid,
             [user_id |-> reqs[r].puser, plan |-> reqs[r].pplan,
              status |-> "active", payment_id |-> {reqs[r].pid}])
        /\ nextSid' = nextSid + 1
        /\ Goto(r, "flag")
        /\ UNCHANGED <<tx, faults>>
     \/ /\ StmtFails
        /\ tx' = TxAfterFail
        /\ faults' = FaultsAfterFail
        /\ Goto(r, "rollback")
        /\ UNCHANGED <<subs, nextSid>>
  /\ UNCHANGED <<payments, flag, snap, nextPid, nextCid, started>>

\* UPDATE users SET subscription_status = 'active' WHERE id = payment.user_id
CbSetFlag(r) ==
  /\ reqs[r].kind = "callback" /\ reqs[r].pc = "flag"
  /\ \/ /\ StmtRuns
        /\ flag' = [flag EXCEPT ![reqs[r].puser] = "active"]
        /\ Goto(r, "commit")
        /\ UNCHANGED <<tx, faults>>
     \/ /\ StmtFails
        /\ tx' = TxAfterFail
        /\ faults' = FaultsAfterFail
        /\ Goto(r, "rollback")
        /\ UNCHANGED flag
  /\ UNCHANGED <<payments, subs, snap, nextPid, nextSid, nextCid, started>>

\* COMMIT, then res.json({ success: true })
CbCommit(r) ==
  /\ reqs[r].kind = "callback" /\ reqs[r].pc = "commit"
  /\ DbCommit
  /\ Finish(r, 200)
  /\ UNCHANGED <<nextPid, nextSid, nextCid, started, faults>>

\* The catch block answering 500 without issuing ROLLBACK.
CbRollbackOmitted(r) ==
  /\ reqs[r].kind = "callback" /\ reqs[r].pc = "rollback"
  /\ Finish(r, 500)
  /\ UNCHANGED <<payments, subs, flag, tx, snap, nextPid, nextSid, nextCid,
                 started, faults>>

\* The catch block rolling back and acknowledging the notification.
CbRollbackAcknowledges(r) ==
  /\ reqs[r].kind = "callback" /\ reqs[r].pc = "rollback"
  /\ DbRollback
  /\ Finish(r, 200)
  /\ UNCHANGED <<nextPid, nextSid, nextCid, started, faults>>

\* catch: ROLLBACK, rethrow; the outer catch answers 500.
CbRollback(r) ==
  /\ reqs[r].kind = "callback" /\ reqs[r].pc = "rollback"
  /\ DbRollback
  /\ Finish(r, 500)
  /\ UNCHANGED <<nextPid, nextSid, nextCid, started, faults>>

\* The failure branch also revoking the owner's entitlement.
CbMarkFailedRevokes(r) ==
  /\ reqs[r].kind = "callback" /\ reqs[r].pc = "markfailed"
  /\ StmtRuns
  /\ payments' = UpdateRow(payments, reqs[r].pid,
       [payments[reqs[r].pid] EXCEPT !.status = "failed",
                                     !.error = {reqs[r].desc}])
  /\ flag' = [flag EXCEPT ![reqs[r].puser] = "inactive"]
  /\ Finish(r, 200)
  /\ UNCHANGED <<subs, tx, snap, nextPid, nextSid, nextCid, started, faults>>

\* UPDATE payments SET status = 'failed', error_message = resultDesc
\* WHERE id = payment.id, then res.json({ success: true })
CbMarkFailed(r) ==
  /\ reqs[r].kind = "callback" /\ reqs[r].pc = "markfailed"
  /\ \/ /\ StmtRuns
        /\ payments' = UpdateRow(payments, reqs[r].pid,
             [payments[reqs[r].pid] EXCEPT !.status = "failed",
                                           !.error = {reqs[r].desc}])
        /\ Finish(r, 200)
        /\ UNCHANGED <<tx, faults>>
     \/ /\ StmtFails
        /\ tx' = TxAfterFail
        /\ faults' = FaultsAfterFail
        /\ Finish(r, 500)
        /\ UNCHANGED payments
  /\ UNCHANGED <<subs, flag, snap, nextPid, nextSid, nextCid, started>>

\* The CheckoutRequestIDs a callback may carry: every id the provider has
\* issued, and 0 for one it never issued.
CallbackIds == 0..(nextCid - 1)

\* A failure notification carries no CallbackMetadata.
CallbackInputs ==
  {<<c, 0, m>> : c \in CallbackIds, m \in MetaInputs}
  \cup {<<c, k, NoMeta>> : c \in CallbackIds, k \in ResultCodes \ {0}}
  \cup {<<NoCid, k, NoMeta>> : k \in ResultCodes \ {0}}
  \cup {<<NoCid, 0, Meta({"QAX123"}, {YearDate}, {PhoneInput})>>}

\* ------------------------------------------------ POST /subscriptions/cancel
StartCancel(r, u) ==
  /\ started < MaxRequests
  /\ FreeSlot(r)
  /\ started' = started + 1
  /\ reqs' = [reqs EXCEPT ![r] =
       [IdleReq EXCEPT !.kind = "cancel", !.pc = "select", !.user = u,
                       !.pre = DB, !.f0 = faults]]
  /\ UNCHANGED <<payments, subs, flag, tx, snap, nextPid, nextSid, nextCid,
                 faults>>

\* SELECT * FROM subscriptions WHERE user_id = $1 AND status = 'active'
\* ORDER BY created_at DESC LIMIT 1
ActiveSubs(u) ==
  {s \in DOMAIN subs : subs[s].user_id = u /\ subs[s].status = "active"}

LatestRow(rows) == CHOOSE s \in rows : \A q \in rows : q <= s

\* The not-found branch also clearing the caller's entitlement flag.
CanSelectRevokes(r) ==
  /\ reqs[r].kind = "cancel" /\ reqs[r].pc = "select"
  /\ IF ~StmtRuns THEN Finish(r, 500) /\ UNCHANGED flag
     ELSE IF ActiveSubs(reqs[r].user) = {}
     THEN Finish(r, 404) /\ flag' = [flag EXCEPT ![reqs[r].user] = "inactive"]
     ELSE /\ reqs' = [reqs EXCEPT
                       ![r].sid = LatestRow(ActiveSubs(reqs[r].user)),
                       ![r].pc = "begin"]
          /\ UNCHANGED flag
  /\ UNCHANGED <<payments, subs, tx, snap, nextPid, nextSid, nextCid,
                 started, faults>>

CanSelect(r) ==
  /\ reqs[r].kind = "cancel" /\ reqs[r].pc = "select"
  /\ IF ~StmtRuns THEN Finish(r, 500)
     ELSE IF ActiveSubs(reqs[r].user) = {} THEN Finish(r, 404)
     ELSE reqs' = [reqs EXCEPT ![r].sid = LatestRow(ActiveSubs(reqs[r].user)),
                               ![r].pc = "begin"]
  /\ UNCHANGED <<payments, subs, flag, tx, snap, nextPid, nextSid, nextCid,
                 started, faults>>

CanBegin(r) ==
  /\ reqs[r].kind = "cancel" /\ reqs[r].pc = "begin"
  /\ IF ~StmtRuns
     THEN Finish(r, 500) /\ UNCHANGED <<tx, snap>>
     ELSE DbBegin /\ Goto(r, "update")
  /\ UNCHANGED <<payments, subs, flag, nextPid, nextSid, nextCid, started,
                 faults>>

\* UPDATE subscriptions SET status = 'cancelled' WHERE id = subscription.id
CanUpdateSub(r) ==
  /\ reqs[r].kind = "cancel" /\ reqs[r].pc = "update"
  /\ \/ /\ StmtRuns
        /\ subs' = UpdateRow(subs, reqs[r].sid,
             [subs[reqs[r].sid] EXCEPT !.status = "cancelled"])
        /\ reqs' = [reqs EXCEPT ![r].pc = "flag", ![r].wrote = TRUE]
        /\ UNCHANGED <<tx, faults>>
     \/ /\ StmtFails
        /\ tx' = TxAfterFail
        /\ faults' = FaultsAfterFail
        /\ Goto(r, "rollback")
        /\ UNCHANGED subs
  /\ UNCHANGED <<payments, flag, snap, nextPid, nextSid, nextCid, started>>

\* UPDATE users SET subscription_status = 'inactive' WHERE id = req.user.id
CanSetFlag(r) ==
  /\ reqs[r].kind = "cancel" /\ reqs[r].pc = "flag"
  /\ \/ /\ StmtRuns
        /\ flag' = [flag EXCEPT ![reqs[r].user] = "inactive"]
        /\ Goto(r, "commit")
        /\ UNCHANGED <<tx, faults>>
     \/ /\ StmtFails
        /\ tx' = TxAfterFail
        /\ faults' = FaultsAfterFail
        /\ Goto(r, "rollback")
        /\ UNCHANGED flag
  /\ UNCHANGED <<payments, subs, snap, nextPid, nextSid, nextCid, started>>

CanCommit(r) ==
  /\ reqs[r].kind = "cancel" /\ reqs[r].pc = "commit"
  /\ DbCommit
  /\ Finish(r, 200)
  /\ UNCHANGED <<nextPid, nextSid, nextCid, started, faults>>

\* The catch block answering 500 without issuing ROLLBACK.
CanRollbackOmitted(r) ==
  /\ reqs[r].kind = "cancel" /\ reqs[r].pc = "rollback"
  /\ Finish(r, 500)
  /\ UNCHANGED <<payments, subs, flag, tx, snap, nextPid, nextSid, nextCid,
                 started, faults>>

\* catch: ROLLBACK, rethrow; the outer catch answers 500.
CanRollback(r) ==
  /\ reqs[r].kind = "cancel" /\ reqs[r].pc = "rollback"
  /\ DbRollback
  /\ Finish(r, 500)
  /\ UNCHANGED <<nextPid, nextSid, nextCid, started, faults>>

\* ------------------------------------------------------ POST /subscriptions
StartCreate(r, u, plan, pid) ==
  /\ started < MaxRequests
  /\ FreeSlot(r)
  /\ started' = started + 1
  /\ reqs' = [reqs EXCEPT ![r] =
       [IdleReq EXCEPT !.kind = "create", !.pc = "verify", !.user = u,
                       !.plan = plan, !.pid = pid, !.pre = DB, !.f0 = faults]]
  /\ UNCHANGED <<payments, subs, flag, tx, snap, nextPid, nextSid, nextCid,
                 faults>>

\* SELECT * FROM payments WHERE id = $1 AND user_id = $2 AND status = 'completed'
CompletedPaymentOf(pid, u) ==
  /\ pid \in DOMAIN payments
  /\ payments[pid].user_id = u
  /\ payments[pid].status = "completed"

\* The verification without the owner and status conditions.
CrVerifyAnyPayment(r) ==
  /\ reqs[r].kind = "create" /\ reqs[r].pc = "verify"
  /\ IF ~StmtRuns THEN Finish(r, 500)
     ELSE IF reqs[r].pid \notin DOMAIN payments THEN Finish(r, 400)
     ELSE Goto(r, "begin")
  /\ UNCHANGED <<payments, subs, flag, tx, snap, nextPid, nextSid, nextCid,
                 started, faults>>

CrVerify(r) ==
  /\ reqs[r].kind = "create" /\ reqs[r].pc = "verify"
  /\ IF ~StmtRuns THEN Finish(r, 500)
     ELSE IF ~CompletedPaymentOf(reqs[r].pid, reqs[r].user) THEN Finish(r, 400)
     ELSE Goto(r, "begin")
  /\ UNCHANGED <<payments, subs, flag, tx, snap, nextPid, nextSid, nextCid,
                 started, faults>>

CrBegin(r) ==
  /\ reqs[r].kind = "create" /\ reqs[r].pc = "begin"
  /\ IF ~StmtRuns
     THEN Finish(r, 500) /\ UNCHANGED <<tx, snap>>
     ELSE DbBegin /\ Goto(r, "insert")
  /\ UNCHANGED <<payments, subs, flag, nextPid, nextSid, nextCid, started,
                 faults>>

\* INSERT INTO subscriptions (...) VALUES (req.user.id, plan, 'active', ...,
\* payment_id)
CrInsertSub(r) ==
  /\ reqs[r].kind = "create" /\ reqs[r].pc = "insert"
  /\ \/ /\ StmtRuns
        /\ subs' = AddRow(subs, nextSid,
             [user_id |-> reqs[r].user, plan |-> reqs[r].plan,
              status |-> "active", payment_id |-> {reqs[r].pid}])
        /\ nextSid' = nextSid + 1
        /\ Goto(r, "flag")
        /\ UNCHANGED <<tx, faults>>
     \/ /\ StmtFails
        /\ tx' = TxAfterFail
        /\ faults' = FaultsAfterFail
        /\ Goto(r, "rollback")
        /\ UNCHANGED <<subs, nextSid>>
  /\ UNCHANGED <<payments, flag, snap, nextPid, nextCid, started>>

\* UPDATE users SET subscription_status = 'active' WHERE id = req.user.id
CrSetFlag(r) ==
  /\ reqs[r].kind = "create" /\ reqs[r].pc = "flag"
  /\ \/ /\ StmtRuns
        /\ flag' = [flag EXCEPT ![reqs[r].user] = "active"]
        /\ Goto(r, "commit")
        /\ UNCHANGED <<tx, faults>>
     \/ /\ StmtFails
        /\ tx' = TxAfterFail
        /\ faults' = FaultsAfterFail
        /\ Goto(r, "rollback")
        /\ UNCHANGED flag
  /\ UNCHANGED <<payments, subs, snap, nextPid, nextSid, nextCid, started>>

CrCommit(r) ==
  /\ reqs[r].kind = "create" /\ reqs[r].pc = "commit"
  /\ DbCommit
  /\ Finish(r, 201)
  /\ UNCHANGED <<nextPid, nextSid, nextCid, started, faults>>

CrRollback(r) ==
  /\ reqs[r].kind = "create" /\ reqs[r].pc = "rollback"
  /\ DbRollback
  /\ Finish(r, 500)
  /\ UNCHANGED <<nextPid, nextSid, nextCid, started, faults>>

\* The payment ids a create request may name: every id handed out so far.
PaymentIdInputs == 1..(nextPid - 1)

\* ------------------------------------------------ GET /payments/:id/status
StartStatus(r, u, pid) ==
  /\ started < MaxRequests
  /\ FreeSlot(r)
  /\ started' = started + 1
  /\ reqs' = [reqs EXCEPT ![r] =
       [IdleReq EXCEPT !.kind = "status", !.pc = "query", !.user = u,
                       !.pid = pid, !.pre = DB, !.f0 = faults]]
  /\ UNCHANGED <<payments, subs, flag, tx, snap, nextPid, nextSid, nextCid,
                 faults>>

\* The query without the owner condition.
StQueryAnyOwner(r) ==
  /\ reqs[r].kind = "status" /\ reqs[r].pc = "query"
  /\ IF ~StmtRuns THEN Finish(r, 500)
     ELSE IF reqs[r].pid \in DOMAIN payments THEN Finish(r, 200)
     ELSE Finish(r, 404)
  /\ UNCHANGED <<payments, subs, flag, tx, snap, nextPid, nextSid, nextCid,
                 started, faults>>

\* SELECT * FROM payments WHERE id = $1 AND user_id = $2; no row -> 404.
StQuery(r) ==
  /\ reqs[r].kind = "status" /\ reqs[r].pc = "query"
  /\ IF ~StmtRuns THEN Finish(r, 500)
     ELSE IF /\ reqs[r].pid \in DOMAIN payments
             /\ payments[reqs[r].pid].user_id = reqs[r].user
     THEN Finish(r, 200)
     ELSE Finish(r, 404)
  /\ UNCHANGED <<payments, subs, flag, tx, snap, nextPid, nextSid, nextCid,
                 started, faults>>

\* -------------------------------------------------- GET /payments/history
\* page and limit of the query string (defaults 1 and 20).
DefaultLimit == 20
PageInputs == {<<1, DefaultLimit>>, <<2, 1>>}

StartHistory(r, u, page, limit) ==
  /\ started < MaxRequests
  /\ FreeSlot(r)
  /\ started' = started + 1
  /\ reqs' = [reqs EXCEPT ![r] =
       [IdleReq EXCEPT !.kind = "history", !.pc = "rows", !.user = u,
                       !.page = page, !.limit = limit, !.pre = DB,
                       !.f0 = faults]]
  /\ UNCHANGED <<payments, subs, flag, tx, snap, nextPid, nextSid, nextCid,
                 faults>>

\* ORDER BY created_at DESC: ids grow with created_at.
RECURSIVE Descending(_)
Descending(ids) ==
  IF ids = {} THEN <<>>
  ELSE LET m == CHOOSE i \in ids : \A j \in ids : j <= i
       IN <<m>> \o Descending(ids \ {m})

\* LIMIT $2 OFFSET $3
Slice(rows, limit, offset) ==
  SubSeq(rows, offset + 1,
         IF offset + limit < Len(rows) THEN offset + limit ELSE Len(rows))

\* SELECT ... FROM payments WHERE user_id = $1 ORDER BY created_at DESC
\* LIMIT $2 OFFSET $3
HistRows(r) ==
  /\ reqs[r].kind = "history" /\ reqs[r].pc = "rows"
  /\ IF ~StmtRuns THEN Finish(r, 500)
     ELSE LET mine == {p \in DOMAIN payments :
                         payments[p].user_id = reqs[r].user}
              offset == (reqs[r].page - 1) * reqs[r].limit
          IN reqs' = [reqs EXCEPT
                        ![r].pc = "count",
                        ![r].data = Slice(Descending(mine), reqs[r].limit,
                                          offset)]
  /\ UNCHANGED <<payments, subs, flag, tx, snap, nextPid, nextSid, nextCid,
                 started, faults>>

\* SELECT COUNT(*) FROM payments WHERE user_id = $1, then the response.
HistCount(r) ==
  /\ reqs[r].kind = "history" /\ reqs[r].pc = "count"
  /\ IF ~StmtRuns THEN Finish(r, 500) ELSE Finish(r, 200)
  /\ UNCHANGED <<payments, subs, flag, tx, snap, nextPid, nextSid, nextCid,
                 started, faults>>

\* ------------------------------------------- PUT /users/:id/subscription
\* The admin route: subscription_status must be one of three values, the
\* user id is taken from the path (0: an id no user has).
AdminStatusInputs == {"active", "inactive", "pending", "expired"}
AdminIdInputs == Users \cup {0}

StatusValid(status) == status \in {"active", "inactive", "pending"}

\* Validation runs before the first await: an invalid body is answered 400.
StartAdmin(r, id, status) ==
  /\ started < MaxRequests
  /\ FreeSlot(r)
  /\ started' = started + 1
  /\ LET req == [IdleReq EXCEPT !.kind = "admin", !.pc = "update", !.user = id,
                                !.plan = status, !.pre = DB, !.f0 = faults]
     IN reqs' = [reqs EXCEPT ![r] = IF StatusValid(status) THEN req
                                    ELSE Done(req, 400)]
  /\ UNCHANGED <<payments, subs, flag, tx, snap, nextPid, nextSid, nextCid,
                 faults>>

\* UPDATE users SET subscription_status = $1 WHERE id = $2 RETURNING ...;
\* no row -> 404.
AdmUpdate(r) ==
  /\ reqs[r].kind = "admin" /\ reqs[r].pc = "update"
  /\ \/ /\ StmtRuns
        /\ IF reqs[r].user \in DOMAIN flag
           THEN /\ flag' = [flag EXCEPT ![reqs[r].user] = reqs[r].plan]
                /\ Finish(r, 200)
           ELSE /\ UNCHANGED flag
                /\ Finish(r, 404)
        /\ UNCHANGED <<tx, faults>>
     \/ /\ StmtFails
        /\ tx' = TxAfterFail
        /\ faults' = FaultsAfterFail
        /\ Finish(r, 500)
        /\ UNCHANGED flag
  /\ UNCHANGED <<payments, subs, snap, nextPid, nextSid, nextCid, started>>

\* ------------------------------------------------------------ specification
\* A request arrives.
Receive(r) ==
  \/ \E u \in Users, ph \in InitiatePhoneInputs, a \in AmountInputs,
        plan \in InitiatePlanInputs : StartInitiate(r, u, ph, a, plan)
  \/ \E in \in CallbackInputs : StartCallback(r, in[1], in[2], in[3])
  \/ \E u \in Users : StartCancel(r, u)
  \/ \E u \in Users, plan \in PlanInputs, pid \in PaymentIdInputs :
       StartCreate(r, u, plan, pid)
  \/ \E id \in AdminIdInputs, status \in AdminStatusInputs :
       StartAdmin(r, id, status)
  \/ \E u \in Users, pid \in PaymentIdInputs : StartStatus(r, u, pid)
  \/ \E u \in Users, pl \in PageInputs : StartHistory(r, u, pl[1], pl[2])

\* The provider answers (or the HTTP client gives up on) a pending call.
ProviderStep(r) == InitToken(r) \/ InitPush(r)

\* The database answers a pending statement.
StoreStep(r) ==
  \/ InitInsert(r) \/ InitSetCid(r) \/ InitMarkFailed(r)
  \/ CbLookup(r) \/ CbBegin(r) \/ CbUpdatePayment(r) \/ CbInsertSub(r)
  \/ CbSetFlag(r) \/ CbCommit(r) \/ CbRollback(r) \/ CbMarkFailed(r)
  \/ CanSelect(r) \/ CanBegin(r) \/ CanUpdateSub(r) \/ CanSetFlag(r)
  \/ CanCommit(r) \/ CanRollback(r)
  \/ CrVerify(r) \/ CrBegin(r) \/ CrInsertSub(r) \/ CrSetFlag(r)
  \/ CrCommit(r) \/ CrRollback(r)
  \/ AdmUpdate(r)
  \/ StQuery(r) \/ HistRows(r) \/ HistCount(r)

\* A request in flight takes its next step.
Step(r) == ProviderStep(r) \/ StoreStep(r)

\* Requests are served concurrently: their steps interleave.
Next == \E r \in Slots : Receive(r) \/ Step(r)

Spec == Init /\ [][Next]_vars

\* Requests are served one at a time: a request arrives only when no other
\* is in flight.
SeqReceive(r) == AllQuiet /\ Receive(r)

SeqNext == \E r \in Slots : SeqReceive(r) \/ Step(r)

SpecSeq == Init /\ [][SeqNext]_vars

\* The same, with the progress the runtime guarantees: a statement sent to
\* the database is answered and the handler resumes.  Nothing bounds the
\* provider calls (axios.get and axios.post are given no timeout), so no
\* progress is assumed for them.
SpecLive == SpecSeq /\ \A r \in Slots : WF_vars(StoreStep(r))

\* ------------------------------------------------------------------ claims
InFlight(r) == ~Free(r)
Responds(r) == InFlight(r) /\ reqs'[r].pc = "done"
SubsFundedBy(table, p) == {i \in DOMAIN table : table[i].payment_id = {p}}

\* A notification that satisfies the provider's schema: ResultCode 0 with the
\* three required metadata items.
WellFormedSuccess(req) ==
  /\ req.code = 0 /\ req.meta.has
  /\ req.meta.receipt # NULL /\ req.meta.date # NULL /\ req.meta.phone # NULL

\* C1: a success callback delivered again, identically (same
\* CheckoutRequestID, receipt and transaction date), for an intent that the
\* first delivery completed changes no stored state: no step of the second
\* delivery changes a table, and it is answered 200 (no database statement
\* failing by a fault).
C1_SecondDeliveryChangesNothing ==
  [][\A r \in Slots :
       (/\ reqs[r].kind = "callback" /\ InFlight(r)
        /\ WellFormedSuccess(reqs[r]) /\ reqs[r].seen = "completed"
        /\ reqs[r].meta.receipt = reqs[r].pre.payments[reqs[r].pid].receipt
        /\ reqs[r].meta.date = reqs[r].pre.payments[reqs[r].pid].date
        /\ faults' = reqs[r].f0)
       => /\ DB' = DB
          /\ (reqs'[r].pc = "done" => reqs'[r].resp = 200)]_vars

\* C2: of the success callbacks that found the same intent pending, at most
\* one goes on to perform the completion (the others must find it completed).
PerformedCompletion(r) ==
  /\ reqs[r].kind = "callback" /\ reqs[r].code = 0 /\ reqs[r].seen = "pending"
  /\ \/ reqs[r].pc \in {"flag", "commit"}
     \/ reqs[r].pc = "done" /\ reqs[r].resp = 200

C2_AtMostOneCompletionPerIntent ==
  \A r1, r2 \in Slots :
    (PerformedCompletion(r1) /\ PerformedCompletion(r2)
     /\ reqs[r1].pid = reqs[r2].pid) => r1 = r2

\* C3: a committed intent in state completed or failed never changes its
\* state, receipt reference or failure reason again.
C3_TerminalIntentNeverChanges ==
  [][\A p \in DOMAIN Committed.payments :
       Committed.payments[p].status \in {"completed", "failed"}
       => /\ p \in DOMAIN Committed'.payments
          /\ Committed'.payments[p] = Committed.payments[p]]_vars

\* C4: every committed completed intent has a receipt and no failure reason,
\* every committed failed intent a failure reason and no receipt.
C4_ReceiptXorFailureReason ==
  \A p \in DOMAIN Committed.payments :
    LET row == Committed.payments[p]
    IN /\ row.status = "completed" => row.receipt # NULL /\ row.error = NULL
       /\ row.status = "failed" => row.error # NULL /\ row.receipt = NULL

\* C5: when a statement of the completion unit fails and the handler's catch
\* block runs, the tables are afterwards exactly as they were when the
\* callback arrived: the intent as it was (pending), no Subscription added,
\* every entitlement flag unchanged, no transaction left open.
C5_FailedUnitIsRolledBack ==
  [][\A r \in Slots :
       (/\ reqs[r].kind = "callback" /\ reqs[r].pc = "rollback"
        /\ reqs'[r].pc = "done")
       => /\ payments' = reqs[r].pre.payments
          /\ subs' = reqs[r].pre.subs
          /\ flag' = reqs[r].pre.flag
          /\ tx' = "none"]_vars

\* C5 witness: a callback that had found its intent pending and had updated
\* it was answered 500 after a statement failed, and the intent is pending
\* with no Subscription funded by it.
C5_Witness ==
  \E r \in Slots :
    /\ reqs[r].kind = "callback" /\ reqs[r].pc = "done" /\ reqs[r].resp = 500
    /\ reqs[r].seen = "pending" /\ reqs[r].wrote /\ faults > 0
    /\ payments[reqs[r].pid].status = "pending"
    /\ SubsFundedBy(subs, reqs[r].pid) = {}

\* C6: a well-formed success callback that finds its intent pending, and
\* during which no database statement fails by a fault, is answered 200 and
\* leaves the intent completed with the receipt of the notification, exactly
\* one new active Subscription of the owner for the intent's plan funded by
\* the intent, and the owner's flag active.
C6_SuccessCallbackCompletes ==
  [][\A r \in Slots :
       (/\ reqs[r].kind = "callback" /\ Responds(r)
        /\ WellFormedSuccess(reqs[r]) /\ reqs[r].seen = "pending"
        /\ faults' = reqs[r].f0)
       => LET p == reqs[r].pid
              new == DOMAIN subs' \ DOMAIN reqs[r].pre.subs
          IN /\ reqs'[r].resp = 200
             /\ payments'[p].status = "completed"
             /\ payments'[p].receipt = reqs[r].meta.receipt
             /\ payments'[p].error = NULL
             /\ Cardinality(new) = 1
             /\ \A i \in new :
                  subs'[i] = [user_id |-> payments'[p].user_id,
                              plan |-> payments'[p].plan_id,
                              status |-> "active", payment_id |-> {p}]
             /\ flag'[payments'[p].user_id] = "active"]_vars

\* C7: a failure callback that finds its intent pending and is answered 200
\* leaves that intent failed with the notification's ResultDesc as failure
\* reason, every other intent, every Subscription and every entitlement flag
\* as they were.
C7_FailureCallbackMarksFailed ==
  [][\A r \in Slots :
       (/\ reqs[r].kind = "callback" /\ Responds(r)
        /\ reqs[r].code # 0 /\ reqs[r].seen = "pending"
        /\ reqs'[r].resp = 200)
       => LET p == reqs[r].pid
          IN /\ payments' = [reqs[r].pre.payments EXCEPT
                               ![p].status = "failed",
                               ![p].error = {reqs[r].desc}]
             /\ subs' = reqs[r].pre.subs
             /\ flag' = reqs[r].pre.flag]_vars

\* C7 witness: a failure callback for a pending intent was answered 200 and
\* the intent is failed.
C7_Witness ==
  \E r \in Slots :
    /\ reqs[r].kind = "callback" /\ reqs[r].pc = "done" /\ reqs[r].resp = 200
    /\ reqs[r].code # 0 /\ reqs[r].seen = "pending"
    /\ payments[reqs[r].pid].status = "failed"

\* C8: a callback whose CheckoutRequestID matches no stored intent is
\* answered 200 and changes no table.
C8_UnknownIdAcknowledged ==
  [][\A r \in Slots :
       (/\ reqs[r].kind = "callback" /\ reqs[r].pc = "lookup"
        /\ StmtRuns /\ RowsByCheckoutId(reqs[r].cid) = {}
        /\ reqs'[r].pc = "done")
       => reqs'[r].resp = 200 /\ DB' = DB]_vars

\* C9: when Initiate answers 200, the intent it created is stored pending
\* with the CheckoutRequestID the provider returned, and no Subscription and
\* no entitlement flag has changed since the request arrived.
C9_InitiateSuccessLeavesPendingIntent ==
  [][\A r \in Slots :
       (/\ reqs[r].kind = "initiate" /\ Responds(r) /\ reqs'[r].resp = 200)
       => LET p == reqs[r].pid
          IN /\ p \in DOMAIN payments'
             /\ p \notin DOMAIN reqs[r].pre.payments
             /\ payments'[p].status = "pending"
             /\ payments'[p].cid = {reqs[r].cid}
             /\ payments'[p].user_id = reqs[r].user
             /\ subs' = reqs[r].pre.subs
             /\ flag' = reqs[r].pre.flag]_vars

\* C9 witness: an Initiate was answered 200 and its intent is pending with a
\* CheckoutRequestID.
C9_Witness ==
  \E r \in Slots :
    /\ reqs[r].kind = "initiate" /\ reqs[r].pc = "done" /\ reqs[r].resp = 200
    /\ payments[reqs[r].pid].status = "pending"
    /\ payments[reqs[r].pid].cid # NULL
    /\ subs = <<>>

\* C10: when the credential request or the push request fails, Initiate
\* answers with a failure and leaves its intent failed with the provider's
\* error text as failure reason, Subscriptions and flags unchanged.
C10_ProviderFailureStoresProviderText ==
  [][\A r \in Slots :
       (/\ reqs[r].kind = "initiate" /\ reqs[r].pc = "markfailed"
        /\ reqs'[r].pc = "done" /\ faults' = reqs[r].f0)
       => LET p == reqs[r].pid
          IN /\ reqs'[r].resp = 400
             /\ payments'[p].status = "failed"
             /\ payments'[p].error = {reqs[r].ptext}
             /\ subs' = reqs[r].pre.subs
             /\ flag' = reqs[r].pre.flag]_vars

\* C11: a Cancel whose owner has no Subscription in state active is answered
\* 404 by its lookup and changes no table: every entitlement flag, every
\* Subscription and every intent is as it was when the request arrived.
C11_CancelWithoutActiveSubNotFound ==
  [][\A r \in Slots :
       (/\ reqs[r].kind = "cancel" /\ reqs[r].pc = "select"
        /\ StmtRuns /\ ActiveSubs(reqs[r].user) = {}
        /\ reqs'[r] # reqs[r])
       => /\ reqs'[r].pc = "done" /\ reqs'[r].resp = 404
          /\ DB' = DB /\ DB' = reqs[r].pre]_vars

\* C11 witness: a Cancel was answered 404 while some user held an active
\* Subscription and an active flag,
\* and nothing was revoked.
C11_Witness ==
  \E r \in Slots :
    /\ reqs[r].kind = "cancel" /\ reqs[r].pc = "done" /\ reqs[r].resp = 404
    /\ \E s \in DOMAIN subs : subs[s].status = "active"
    /\ \E u \in Users : flag[u] = "active"

\* C12: a Cancel that found an active Subscription ends in one of two ways.
\* Answered 200: exactly the owner's most recently created active
\* Subscription is cancelled and the owner's flag is inactive.  Answered 500
\* (a write failed, the second one included): neither write remains.  In
\* both cases every intent and every other Subscription is as it was.
C12_CancelIsAtomic ==
  [][\A r \in Slots :
       (/\ reqs[r].kind = "cancel" /\ Responds(r) /\ reqs[r].sid # 0)
       => LET pre == reqs[r].pre
              u == reqs[r].user
              mine == {i \in DOMAIN pre.subs :
                         pre.subs[i].user_id = u /\ pre.subs[i].status = "active"}
          IN /\ reqs[r].sid = LatestRow(mine)
             /\ payments' = pre.payments
             /\ tx' = "none"
             /\ IF reqs'[r].resp = 200
                THEN /\ subs' = [pre.subs EXCEPT ![reqs[r].sid].status = "cancelled"]
                     /\ flag' = [pre.flag EXCEPT ![u] = "inactive"]
                ELSE /\ subs' = pre.subs
                     /\ flag' = pre.flag]_vars

\* C12 witness: a Cancel whose first write ran was answered 500 after the
\* second write failed, and the Subscription is still active with its
\* owner's flag active.
C12_Witness ==
  \E r \in Slots :
    /\ reqs[r].kind = "cancel" /\ reqs[r].pc = "done" /\ reqs[r].resp = 500
    /\ reqs[r].wrote /\ faults > 0
    /\ \E s \in DOMAIN subs :
         subs[s].status = "active" /\ flag[subs[s].user_id] = "active"

\* The notification can be processed to the end: a success result carries
\* the metadata the handler reads and a TransactionDate that new Date parses.
Processable(req) ==
  req.code = 0 => req.meta.has /\ req.meta.date # NULL /\ DateParamValid(req.meta)

\* C13: a callback whose processing (lookup, state transition, side effects)
\* ran to its end with no statement failing is answered 200, for a success
\* result and for a failure result alike.
C13_ProcessedCallbackAcknowledged ==
  [][\A r \in Slots :
       (/\ reqs[r].kind = "callback" /\ Responds(r)
        /\ Processable(reqs[r]) /\ StmtRuns /\ faults' = reqs[r].f0)
       => reqs'[r].resp = 200]_vars

\* C14: once an intent carries a CheckoutRequestID, no step of any request
\* removes the intent or changes that id.
C14_CorrelationIdNeverChanges ==
  [][\A p \in DOMAIN payments :
       payments[p].cid # NULL
       => p \in DOMAIN payments' /\ payments'[p].cid = payments[p].cid]_vars

\* C15: a step that changes a committed entitlement flag is a step of a
\* success callback or of a Cancel.
C15_FlagWrittenOnlyByCallbackAndCancel ==
  [][Committed'.flag # Committed.flag
     => \E r \in Slots :
          /\ InFlight(r) /\ reqs'[r] # reqs[r]
          /\ \/ reqs[r].kind = "callback" /\ reqs[r].code = 0
             \/ reqs[r].kind = "cancel"]_vars

\* C16: an Initiate that is waiting for the provider (credential request or
\* push request sent) eventually answers its caller; the intent it created
\* does not stay pending without a CheckoutRequestID behind a request that
\* never ends.
C16_InitiateTerminates ==
  \A r \in Slots :
    (reqs[r].kind = "initiate" /\ reqs[r].pc \in {"token", "push"})
      ~> (reqs[r].pc = "done")

\* C17: a callback that arrives while the Initiate that obtained its
\* CheckoutRequestID has not yet stored it is matched, by its lookup, to the
\* intent of that Initiate.
C17_EarlyCallbackMatched ==
  [][\A r, q \in Slots :
       (/\ reqs[r].kind = "callback" /\ reqs[r].pc = "lookup" /\ StmtRuns
        /\ reqs'[r] # reqs[r]
        /\ reqs[q].kind = "initiate" /\ reqs[q].pc = "setcid"
        /\ reqs[q].cid = reqs[r].cid)
       => reqs'[r].pid = reqs[q].pid /\ reqs'[r].resp # 404]_vars

\* C18: a success callback that finds its intent pending and whose metadata
\* is absent or lacks MpesaReceiptNumber, TransactionDate or PhoneNumber is
\* not applied: when it is answered, the intent is still pending and every
\* table is as it was when the callback arrived.
C18_IncompleteMetadataNotApplied ==
  [][\A r \in Slots :
       (/\ reqs[r].kind = "callback" /\ Responds(r)
        /\ reqs[r].code = 0 /\ reqs[r].seen = "pending"
        /\ ~WellFormedSuccess(reqs[r]))
       => /\ payments'[reqs[r].pid].status = "pending"
          /\ DB' = reqs[r].pre]_vars

\* The step in which a callback is answered ends processing that hit an
\* error: the catch block of the unit of work runs, a statement fails, or
\* the success branch finds no CallbackMetadata to read.
ProcessingFailed(r) ==
  \/ reqs[r].pc = "rollback"
  \/ faults' > faults
  \/ reqs[r].pc = "lookup" /\ reqs[r].code = 0 /\ ~reqs[r].meta.has

\* C19 as stated: every callback whose intent was found is answered 200,
\* whatever happens in the processing after the lookup.
C19_FoundCallbackNeverFails ==
  [][\A r \in Slots :
       (/\ reqs[r].kind = "callback" /\ Responds(r)
        /\ reqs'[r].seen # "none")
       => reqs'[r].resp = 200]_vars

\* C19 amended: a callback whose intent was found and whose processing then
\* hits an error is answered 500, with every table as it was when the
\* callback arrived and no transaction left open; a found callback is
\* answered 500 only in that case.
C19_ProcessingErrorAnswered500 ==
  [][\A r \in Slots :
       (/\ reqs[r].kind = "callback" /\ Responds(r)
        /\ reqs'[r].seen # "none")
       => /\ ProcessingFailed(r)
             => reqs'[r].resp = 500 /\ DB' = reqs[r].pre /\ tx' = "none"
          /\ ~ProcessingFailed(r) => reqs'[r].resp = 200]_vars

\* C19 witness: a callback that found its intent pending was answered 500
\* with no database fault involved (its TransactionDate was missing or not
\* a date the database accepts, or it had no metadata).
C19_Witness ==
  \E r \in Slots :
    /\ reqs[r].kind = "callback" /\ reqs[r].pc = "done" /\ reqs[r].resp = 500
    /\ reqs[r].seen = "pending" /\ faults = 0
    /\ payments[reqs[r].pid].status = "pending"

\* C20: an Initiate whose phone number, amount or plan fails validation is
\* answered 400 on arrival and takes no further step: no table changes, no
\* intent id and no CheckoutRequestID is consumed (no INSERT, no provider
\* call); and no Initiate with invalid input is ever in flight.
C20_MalformedInitiateRejected ==
  [][\A r \in Slots :
       /\ (reqs'[r].kind = "initiate" /\ reqs'[r] # reqs[r] /\ ~reqs'[r].valid)
          => /\ Free(r) /\ reqs'[r].pc = "done" /\ reqs'[r].resp = 400
             /\ DB' = DB /\ nextPid' = nextPid /\ nextCid' = nextCid
       /\ (reqs[r].kind = "initiate" /\ InFlight(r)) => reqs[r].valid]_vars

\* C20 witness: an Initiate with invalid input was answered 400 and no
\* intent exists.
C20_Witness ==
  \E r \in Slots :
    /\ reqs[r].kind = "initiate" /\ reqs[r].pc = "done" /\ reqs[r].resp = 400
    /\ ~reqs[r].valid /\ payments = <<>>

\* C21: within one Initiate, the credential request and the push request are
\* made only when the intent of this call is stored pending (and was not
\* stored before the call); the push request is made only after the
\* credential was obtained, carries this intent's id as merchant reference,
\* and is the only push request of the call.
C21_InitiateStepsOrdered ==
  [][\A r \in Slots :
       (reqs[r].kind = "initiate" /\ reqs'[r] # reqs[r])
       => LET p == reqs[r].pid
          IN /\ reqs[r].pc \in {"token", "push"}
                => /\ p \in DOMAIN payments
                   /\ p \notin DOMAIN reqs[r].pre.payments
                   /\ payments[p].status = "pending"
                   /\ payments[p].user_id = reqs[r].user
             /\ reqs[r].pc = "token" => ~reqs[r].token /\ reqs[r].pushes = 0
             /\ reqs[r].pc = "push"
                => /\ reqs[r].token /\ reqs[r].pushes = 0
                   /\ reqs'[r].pushes = 1 /\ reqs'[r].ref = p
             /\ reqs[r].pc \in {"setcid", "markfailed"}
                => reqs'[r].pushes <= reqs[r].pushes]_vars

\* C21 witness: an Initiate has its intent stored pending, the credential
\* obtained and its one push request answered with a CheckoutRequestID.
C21_Witness ==
  \E r \in Slots :
    /\ reqs[r].kind = "initiate" /\ reqs[r].pc = "setcid"
    /\ reqs[r].token /\ reqs[r].pushes = 1 /\ reqs[r].ref = reqs[r].pid
    /\ payments[reqs[r].pid].status = "pending"

\* C22: no step removes a committed Subscription row, and a step that adds
\* committed rows is a step of a success callback, the row being the one for
\* the intent it found, or of a create-subscription request, the row
\* belonging to the caller and naming an intent that was completed and owned
\* by the caller when the request arrived.
C22_SubscriptionsCreatedByActivationOnly ==
  [][/\ DOMAIN Committed.subs \subseteq DOMAIN Committed'.subs
     /\ \A i \in DOMAIN Committed'.subs \ DOMAIN Committed.subs :
          LET row == Committed'.subs[i]
          IN \E r \in Slots :
               /\ InFlight(r) /\ reqs'[r] # reqs[r]
               /\ \/ /\ reqs[r].kind = "callback" /\ reqs[r].code = 0
                     /\ row.payment_id = {reqs[r].pid}
                     /\ row.user_id = reqs[r].puser
                  \/ /\ reqs[r].kind = "create"
                     /\ row.payment_id = {reqs[r].pid}
                     /\ row.user_id = reqs[r].user
                     /\ reqs[r].pid \in DOMAIN reqs[r].pre.payments
                     /\ reqs[r].pre.payments[reqs[r].pid].status = "completed"
                     /\ reqs[r].pre.payments[reqs[r].pid].user_id = reqs[r].user]_vars

\* C22 witness: a create-subscription request was answered 201 and a
\* Subscription of the intent's owner names the intent it verified.
C22_Witness ==
  \E r \in Slots :
    /\ reqs[r].kind = "create" /\ reqs[r].pc = "done" /\ reqs[r].resp = 201
    /\ \E i \in DOMAIN subs :
         /\ subs[i].payment_id = {reqs[r].pid}
         /\ subs[i].user_id = payments[reqs[r].pid].user_id

\* C23: a status query is answered 200 exactly when the intent exists and
\* belongs to the caller, and 404 otherwise; the rows a history query
\* returns are intents of the caller; no step of either query changes a
\* table or the transaction state.
C23_QueriesOwnerScopedReadOnly ==
  [][\A r \in Slots :
       /\ (reqs[r].kind \in {"status", "history"} /\ reqs'[r] # reqs[r])
          => DB' = DB /\ tx' = tx /\ snap' = snap
       /\ (reqs[r].kind = "status" /\ Responds(r) /\ StmtRuns)
          => LET own == /\ reqs[r].pid \in DOMAIN payments
                        /\ payments[reqs[r].pid].user_id = reqs[r].user
             IN reqs'[r].resp = IF own THEN 200 ELSE 404
       /\ (reqs[r].kind = "history" /\ reqs[r].pc = "rows")
          => \A i \in DOMAIN reqs'[r].data :
               /\ reqs'[r].data[i] \in DOMAIN payments
               /\ payments[reqs'[r].data[i]].user_id = reqs[r].user]_vars

\* C23 witness: a status query for an existing intent was answered 404 (the
\* intent belongs to another user).
C23_Witness ==
  \E r \in Slots :
    /\ reqs[r].kind = "status" /\ reqs[r].pc = "done" /\ reqs[r].resp = 404
    /\ reqs[r].pid \in DOMAIN payments

\* C24: an Initiate calls the credential endpoint only when no credential
\* issued to an earlier Initiate is at hand: one that arrived after a
\* credential was obtained reuses it.
C24_CredentialReused ==
  [][\A r \in Slots :
       (/\ reqs[r].kind = "initiate" /\ reqs[r].pc = "token"
        /\ reqs'[r] # reqs[r])
       => ~reqs[r].cred]_vars

\* C25: at most one committed Subscription row references any one intent.
C25_OneSubscriptionPerIntent ==
  \A p \in DOMAIN Committed.payments :
    Cardinality(SubsFundedBy(Committed.subs, p)) <= 1

\* C26: every committed Subscription row that names an intent names one that
\* is completed and owned by the Subscription's owner.
C26_SubscriptionPointsToCompletedIntent ==
  \A i \in DOMAIN Committed.subs :
    \A p \in Committed.subs[i].payment_id :
      /\ p \in DOMAIN Committed.payments
      /\ Committed.payments[p].status = "completed"
      /\ Committed.payments[p].user_id = Committed.subs[i].user_id

\* The flag of u agrees with u's Subscriptions in the tables db.
FlagAgrees(db, u) ==
  db.flag[u] = "active"
    <=> \E i \in DOMAIN db.subs :
          db.subs[i].user_id = u /\ db.subs[i].status = "active"

\* C27: when a success callback, a create-subscription request or a Cancel
\* is answered, with no request left in flight and no statement having
\* failed by a fault, every user whose flag agreed with their Subscriptions
\* when the request arrived still has a flag that agrees with them.
C27_FlagAgreesWithActiveSubscriptions ==
  [][\A r \in Slots :
       (/\ reqs[r].kind \in {"callback", "create", "cancel"}
        /\ Responds(r) /\ \A q \in Slots : Free(q)'
        /\ faults' = reqs[r].f0)
       => \A u \in Users :
            FlagAgrees(reqs[r].pre, u) => FlagAgrees(DB', u)]_vars

\* C28: when Initiate marks its intent failed the intent has no
\* CheckoutRequestID; and no step of a callback, whatever id and result it
\* carries, finds an intent that is failed without a CheckoutRequestID,
\* changes it, or adds a Subscription naming it.
C28_FailedByInitiateNeverMatched ==
  [][/\ \A r \in Slots :
          (/\ reqs[r].kind = "initiate" /\ reqs[r].pc = "markfailed"
           /\ reqs'[r].pc = "done" /\ reqs'[r].resp = 400)
          => /\ payments'[reqs[r].pid].status = "failed"
             /\ payments'[reqs[r].pid].cid = NULL
     /\ \A p \in DOMAIN payments :
          (payments[p].status = "failed" /\ payments[p].cid = NULL)
          => \A r \in Slots :
               (reqs[r].kind = "callback" /\ InFlight(r) /\ reqs'[r] # reqs[r])
               => /\ reqs'[r].pid # p
                  /\ p \in DOMAIN payments' /\ payments'[p] = payments[p]
                  /\ SubsFundedBy(subs', p) = SubsFundedBy(subs, p)]_vars

\* C28 witness: an intent is failed without a CheckoutRequestID and a
\* callback has been answered since, leaving no Subscription for it.
C28_Witness ==
  \E p \in DOMAIN payments :
    /\ payments[p].status = "failed" /\ payments[p].cid = NULL
    /\ SubsFundedBy(subs, p) = {}
    /\ \E r \in Slots : reqs[r].kind = "callback" /\ reqs[r].pc = "done"

\* C29: when an Initiate that inserted an intent answers its caller, the
\* intent is pending with a CheckoutRequestID or failed with a failure
\* reason, whichever statement of the call failed.
C29_InitiateLeavesNoOrphan ==
  [][\A r \in Slots :
       (reqs[r].kind = "initiate" /\ Responds(r) /\ reqs[r].pid # 0)
       => LET p == reqs[r].pid
          IN /\ p \in DOMAIN payments'
             /\ \/ payments'[p].status = "pending" /\ payments'[p].cid # NULL
                \/ payments'[p].status = "failed" /\ payments'[p].error # NULL]_vars

\* The rows a unit of work of request req may write: the intent it found,
\* the Subscriptions naming the payment it handles (callback, create) or the
\* Subscription it selected (cancel), and the flag of its user.
OwnsPayment(req, p) == req.kind = "callback" /\ req.pid = p
OwnsFlag(req, u) ==
  IF req.kind = "callback" THEN req.puser = u ELSE req.user = u
OwnsSub(req, table, i) ==
  IF req.kind = "cancel" THEN req.sid = i
  ELSE i \in DOMAIN table /\ table[i].payment_id = {req.pid}

\* C30: the ROLLBACK or COMMIT that ends the unit of work of one request
\* leaves alone everything that unit of work does not write: every other
\* intent, every other Subscription and every other user's flag is after
\* the step as it was before it.
C30_UnitsOfWorkIsolated ==
  [][\A r \in Slots :
       (/\ reqs[r].kind \in {"callback", "cancel", "create"}
        /\ reqs[r].pc \in {"rollback", "commit"}
        /\ reqs'[r].pc = "done")
       => /\ \A p \in DOMAIN payments :
               ~OwnsPayment(reqs[r], p)
               => p \in DOMAIN payments' /\ payments'[p] = payments[p]
          /\ \A i \in DOMAIN subs :
               ~OwnsSub(reqs[r], subs, i)
               => i \in DOMAIN subs' /\ subs'[i] = subs[i]
          /\ \A u \in Users :
               ~OwnsFlag(reqs[r], u) => flag'[u] = flag[u]]_vars

====
